---- MODULE Spec2Model ----
(***************************************************************************)
(* A model of odlh_protobuf_decode_.py: the schema-less protobuf decoder   *)
(* (decode_protobuf / decode_field / decode_length_delimited), the         *)
(* BufferReader cursor and the varint reinterpretation                     *)
(* (decode_varint_parts).                                                  *)
(*                                                                         *)
(* Python integers are unbounded.  A non-negative Python int is modelled   *)
(* as the set of positions of its 1 bits (a "Big"), so that shifts, masks, *)
(* sums and comparisons are exact at every width; a possibly negative int  *)
(* is a record [neg, mag].  A bytes object is a sequence of 0..255.        *)
(* A call that raises is modelled by the record [raised |-> TRUE, exc].    *)
(***************************************************************************)
EXTENDS Integers, Sequences, FiniteSets, TLC

VARIABLES
    stack,      \* call stack of decode_protobuf activations, innermost last
    outcome,    \* "idle" | "running" | "returned" | "raised": the top-level call
    retval,     \* the list the top-level decode_protobuf returned
    error,      \* the exception that escaped the top-level decode_protobuf
    reader,     \* a BufferReader object: [buffer, offset, saved_offset]
    last,       \* the last BufferReader method called and how it ended
    value,      \* the argument of decode_varint_parts
    parts       \* what decode_varint_parts returned for it

vars == <<stack, outcome, retval, error, reader, last, value, parts>>

----------------------------------------------------------------------------
(* Bounds of the model *)

\* longest buffer handed to decode_protobuf
MaxLen == 5

\* longest buffer held by a BufferReader
ReaderMaxLen == 6

\* 0x00, 0x02, 0x03, 0x05: one-byte tags of wire types 0, 2, 3, 5 (and small
\* lengths); 0x82: a byte with the continuation bit, not valid UTF-8 alone;
\* 0xC2: a continuation byte that starts a two-byte UTF-8 sequence.
ByteAlphabet == {0, 2, 3, 5, 130, 194}

\* bytes of the buffers a BufferReader is built on
ReaderAlphabet == {0, 1, 130}

\* bit positions the arguments of decode_varint_parts are built from
VarintBitPositions == {0, 1, 30, 31, 32, 63, 64}

----------------------------------------------------------------------------
(* Python int arithmetic on sets of bit positions *)

Max(S) == CHOOSE m \in S : \A x \in S : x <= m

\* the Big of a small non-negative integer n (n < 2^31)
Big(n) == {i \in 0..30 : (n \div (2^i)) % 2 = 1}

RECURSIVE SumBits(_)
SumBits(b) ==
    IF b = {} THEN 0
    ELSE LET i == CHOOSE x \in b : TRUE IN 2^i + SumBits(b \ {i})

\* the integer a Big stands for, when it is below 2^31
Small(b) == SumBits(b)

BitsOfByte(byte) == {i \in 0..7 : (byte \div (2^i)) % 2 = 1}

\* a << k, a >> k, a & b, a | b
BigShl(a, k) == {i + k : i \in a}
BigShr(a, k) == {i - k : i \in {j \in a : j >= k}}
BigAnd(a, b) == a \cap b
BigOr(a, b) == a \cup b

\* a < b
BigLess(a, b) ==
    /\ a # b
    /\ Max((a \ b) \cup (b \ a)) \in b

\* the carry into bit i of a + b: some lower bit generates a carry and every
\* bit between propagates it
Carry(a, b, i) ==
    \E j \in 0..(i - 1) :
        /\ j \in a /\ j \in b
        /\ \A k \in (j + 1)..(i - 1) : k \in a \/ k \in b

\* a + b
BigAdd(a, b) ==
    {i \in 0..(Max(a \cup b \cup {0}) + 1) :
        ((i \in a) # (i \in b)) # Carry(a, b, i)}

\* the borrow from bit i of a - b
Borrow(a, b, i) ==
    \E j \in 0..(i - 1) :
        /\ j \notin a /\ j \in b
        /\ \A k \in (j + 1)..(i - 1) : k \notin a \/ k \in b

\* a - b, for a >= b
BigSub(a, b) ==
    {i \in 0..Max(a \cup b \cup {0}) :
        ((i \in a) # (i \in b)) # Borrow(a, b, i)}

\* a possibly negative Python int
SInt(neg, mag) == [neg |-> neg /\ mag # {}, mag |-> mag]

----------------------------------------------------------------------------
(* Python built-ins used by the decoder *)

Raise(exc) == [raised |-> TRUE, exc |-> exc]

\* an index of a slice clipped to the length of the sequence
ClipIndex(i, n) == IF BigLess(Big(n), i) THEN n ELSE Small(i)

\* buffer[lo:hi] for non-negative lo, hi: never raises, clips to the buffer
Slice(buffer, lo, hi) ==
    LET l == ClipIndex(lo, Len(buffer))
        h == ClipIndex(hi, Len(buffer))
    IN IF l >= h THEN << >> ELSE SubSeq(buffer, l + 1, h)

\* str(n) of a non-negative int: decimal digits, by double-and-add from the
\* most significant bit
DoubleAdd(digits, bit) ==
    LET n == Len(digits)
        carry[k \in 0..n] ==
            IF k = 0 THEN bit ELSE (2 * digits[k] + carry[k - 1]) \div 10
        low == [k \in 1..n |-> (2 * digits[k] + carry[k - 1]) % 10]
    IN IF carry[n] = 0 THEN low ELSE Append(low, carry[n])

RECURSIVE DecDigits(_, _, _)
DecDigits(b, i, digits) ==
    IF i < 0 THEN digits
    ELSE DecDigits(b, i - 1, DoubleAdd(digits, IF i \in b THEN 1 ELSE 0))

RECURSIVE DigitString(_, _)
DigitString(digits, k) ==
    IF k = 0 THEN "" ELSE ToString(digits[k]) \o DigitString(digits, k - 1)

IntToStr(b) ==
    IF b = {} THEN "0"
    ELSE LET digits == DecDigits(b, Max(b), << >>)
         IN DigitString(digits, Len(digits))

IsContinuation(b, i) == i <= Len(b) /\ b[i] \in 128..191
ContinuationIn(b, i, lo, hi) == i <= Len(b) /\ b[i] \in lo..hi

\* bytes.decode('utf-8'), strict: the code points, or UnicodeDecodeError
RECURSIVE Utf8Loop(_, _, _)
Utf8Loop(b, i, acc) ==
    IF i > Len(b) THEN [raised |-> FALSE, value |-> acc]
    ELSE LET c == b[i] IN
      IF c < 128 THEN Utf8Loop(b, i + 1, Append(acc, c))
      ELSE IF c \in 194..223 THEN
        IF IsContinuation(b, i + 1)
        THEN Utf8Loop(b, i + 2, Append(acc, (c - 192) * 64 + (b[i + 1] - 128)))
        ELSE Raise("UnicodeDecodeError")
      ELSE IF c \in 224..239 THEN
        LET lo == IF c = 224 THEN 160 ELSE 128
            hi == IF c = 237 THEN 159 ELSE 191
        IN IF ContinuationIn(b, i + 1, lo, hi) /\ IsContinuation(b, i + 2)
           THEN Utf8Loop(b, i + 3, Append(acc,
                    (c - 224) * 4096 + (b[i + 1] - 128) * 64 + (b[i + 2] - 128)))
           ELSE Raise("UnicodeDecodeError")
      ELSE IF c \in 240..244 THEN
        LET lo == IF c = 240 THEN 144 ELSE 128
            hi == IF c = 244 THEN 143 ELSE 191
        IN IF /\ ContinuationIn(b, i + 1, lo, hi)
              /\ IsContinuation(b, i + 2)
              /\ IsContinuation(b, i + 3)
           THEN Utf8Loop(b, i + 4, Append(acc,
                    (c - 240) * 262144 + (b[i + 1] - 128) * 4096
                    + (b[i + 2] - 128) * 64 + (b[i + 3] - 128)))
           ELSE Raise("UnicodeDecodeError")
      ELSE Raise("UnicodeDecodeError")

Utf8Decode(b) == Utf8Loop(b, 1, << >>)

\* struct.pack('<I' / '<Q', v): the n little-endian bytes of v
PackLE(v, n) == [i \in 1..n |-> Small(BigShr(BigAnd(v, (8 * (i - 1))..(8 * i - 1)), 8 * (i - 1)))]

\* struct.unpack('<I' / '<Q', bytes): the unsigned little-endian value
UnpackLE(bytes) ==
    UNION {BigShl(BitsOfByte(bytes[i]), 8 * (i - 1)) : i \in 1..Len(bytes)}

\* struct.unpack('>I', bytes): the unsigned big-endian value
UnpackBE(bytes) ==
    UNION {BigShl(BitsOfByte(bytes[i]), 8 * (Len(bytes) - i)) : i \in 1..Len(bytes)}

\* struct.unpack('<i' / '<q', bytes): the signed little-endian value
UnpackLESigned(bytes) ==
    LET u == UnpackLE(bytes)
        w == 8 * Len(bytes)
    IN IF (w - 1) \in u THEN SInt(TRUE, BigSub({w}, u)) ELSE SInt(FALSE, u)

\* struct.unpack('<f' / '<d', bytes): the IEEE-754 number, as its sign,
\* biased exponent and fraction (ebits exponent bits)
UnpackFloat(bytes, ebits) ==
    LET u == UnpackLE(bytes)
        w == 8 * Len(bytes)
        fbits == w - 1 - ebits
    IN [sign |-> IF (w - 1) \in u THEN 1 ELSE 0,
        exponent |-> Small(BigShr(BigAnd(u, fbits..(w - 2)), fbits)),
        fraction |-> BigAnd(u, 0..(fbits - 1))]

----------------------------------------------------------------------------
(* The module's constants and helpers *)

WIRE_TYPE_VARINT == 0
WIRE_TYPE_64BIT == 1
WIRE_TYPE_LENGTH_DELIMITED == 2
WIRE_TYPE_32BIT == 5

HexDigits == <<"0", "1", "2", "3", "4", "5", "6", "7",
               "8", "9", "a", "b", "c", "d", "e", "f">>

\* f'{byte:02x}'
ByteHex(byte) == HexDigits[(byte \div 16) + 1] \o HexDigits[(byte % 16) + 1]

RECURSIVE JoinHex(_, _)
JoinHex(buffer, i) ==
    IF i > Len(buffer) THEN ""
    ELSE IF i = Len(buffer) THEN ByteHex(buffer[i])
    ELSE ByteHex(buffer[i]) \o " " \o JoinHex(buffer, i + 1)

buffer_to_pretty_hex(buffer) == JoinHex(buffer, 1)

wire_type_to_string(wire_type) ==
    CASE wire_type = WIRE_TYPE_VARINT -> "varint"
      [] wire_type = WIRE_TYPE_64BIT -> "fixed64"
      [] wire_type = WIRE_TYPE_LENGTH_DELIMITED -> "length_delimited"
      [] wire_type = WIRE_TYPE_32BIT -> "fixed32"
      [] OTHER -> "unknown"

\* interpret_as_signed_type with -(n >> 1) for an odd n, in place of
\* -((n + 1) >> 1)
SignedTypeOffByOne(n) ==
    IF BigAnd(n, {0}) = {}
    THEN SInt(FALSE, BigShr(n, 1))
    ELSE SInt(TRUE, BigShr(n, 1))

interpret_as_signed_type(n) ==
    IF BigAnd(n, {0}) = {}
    THEN SInt(FALSE, BigShr(n, 1))
    ELSE SInt(TRUE, BigShr(BigAdd(n, Big(1)), 1))

interpret_as_twos_complement(n, bits) ==
    IF (bits - 1) \in n
    THEN IF BigLess(n, {bits})
         THEN SInt(TRUE, BigSub({bits}, n))
         ELSE SInt(FALSE, BigSub(n, {bits}))
    ELSE SInt(FALSE, n)

decode_varint_parts(v) ==
    LET uint == SInt(FALSE, v)
        int32_value == UnpackLESigned(PackLE(BigAnd(v, 0..31), 4))
        int64_value == UnpackLESigned(PackLE(BigAnd(v, 0..63), 8))
        signed_value == interpret_as_signed_type(v)
    IN <<[type |-> "uint", value |-> uint]>>
       \o (IF int32_value # uint
           THEN <<[type |-> "int32", value |-> int32_value]>> ELSE << >>)
       \o (IF int64_value # uint
           THEN <<[type |-> "int64", value |-> int64_value]>> ELSE << >>)
       \o (IF signed_value # uint
           THEN <<[type |-> "sint", value |-> signed_value]>> ELSE << >>)

decode_fixed32(v) ==
    <<[type |-> "float", value |-> UnpackFloat(PackLE(v, 4), 8)],
      [type |-> "int", value |-> SInt(FALSE, v)]>>

decode_fixed64(v) ==
    <<[type |-> "double", value |-> UnpackFloat(PackLE(v, 8), 11)],
      [type |-> "int", value |-> SInt(FALSE, v)]>>

----------------------------------------------------------------------------
(* BufferReader._decode_varint and the field decoder *)

RECURSIVE VarintLoop(_, _, _, _, _)
VarintLoop(buffer, pos, shift, result, start_pos) ==
    IF ~BigLess(pos, Big(Len(buffer))) THEN Raise("IndexError")
    ELSE LET byte == buffer[Small(pos) + 1]
             pos1 == BigAdd(pos, Big(1))
             result1 == BigOr(result, BigShl(BitsOfByte(byte % 128), shift))
         IN IF byte \div 128 = 0
            THEN [raised |-> FALSE, value |-> result1, pos |-> pos1,
                  range |-> <<start_pos, pos1>>]
            ELSE VarintLoop(buffer, pos1, shift + 7, result1, start_pos)

_decode_varint(buffer, pos) == VarintLoop(buffer, pos, 0, {}, pos)

\* struct.unpack_from('<Q' / '<I', buffer, pos): n bytes at pos, or struct.error
UnpackFromLE(buffer, pos, n) ==
    IF BigLess(Big(Len(buffer)), BigAdd(pos, Big(n))) THEN Raise("struct.error")
    ELSE [raised |-> FALSE,
          value |-> UnpackLE(SubSeq(buffer, Small(pos) + 1, Small(pos) + n))]

\* PayloadSlice with the slice taken from the start of the buffer,
\* buffer[:pos + length] in place of buffer[pos:pos + length]
PayloadSliceFromStart(buffer, l) ==
    IF l.raised THEN l
    ELSE [raised |-> FALSE,
          result |-> Slice(buffer, {}, BigAdd(l.pos, l.value)),
          pos |-> BigAdd(l.pos, l.value)]

\* decode_length_delimited up to its try: the length, the payload slice and
\* the position after it
PayloadSlice(buffer, l) ==
    IF l.raised THEN l
    ELSE [raised |-> FALSE,
          result |-> Slice(buffer, l.pos, BigAdd(l.pos, l.value)),
          pos |-> BigAdd(l.pos, l.value)]

LengthDelimitedPayload(buffer, pos) == PayloadSlice(buffer, _decode_varint(buffer, pos))

\* the three classifications decode_length_delimited returns
StringContent(result, result_str) ==
    [type |-> "string", value |-> result_str, hex |-> buffer_to_pretty_hex(result)]

ProtobufContent(result, nested_message) ==
    [type |-> "protobuf", value |-> nested_message,
     hex |-> buffer_to_pretty_hex(result)]

BytesContent(result) ==
    [type |-> "bytes", value |-> buffer_to_pretty_hex(result),
     hex |-> buffer_to_pretty_hex(result)]

\* ExceptException narrowed to "except IndexError"
ExceptIndexError(exc) == exc = "IndexError"

\* the clause "except Exception" of decode_length_delimited: every exception
\* the nested decode raises (IndexError, struct.error, ValueError) is one
ExceptException(exc) == exc \in {"IndexError", "struct.error", "ValueError"}

FieldInfo(key_start, end_pos, field_number, wire_type, original_value, content) ==
    ("Byte Range" :> (IntToStr(key_start) \o "-" \o IntToStr(end_pos)))
    @@ ("Field Number" :> field_number)
    @@ ("Type" :> wire_type_to_string(wire_type))
    @@ ("Original Hex" :> buffer_to_pretty_hex(original_value))
    @@ ("Content" :> content)

\* the outcome of a payload read: the content and the position after the
\* payload, or the exception the read raised
Payload(v, content, pos) ==
    IF v.raised THEN v
    ELSE [raised |-> FALSE, call |-> FALSE, content |-> content, pos |-> pos]

\* decode_length_delimited from its try on, p being the payload slice read and
\* s the outcome of result.decode('utf-8'): "string", or the nested
\* decode_protobuf(result) call that decides between "protobuf" and "bytes"
Classify(p, s) ==
    IF ~s.raised
    THEN [raised |-> FALSE, call |-> FALSE,
          content |-> StringContent(p.result, s.value), pos |-> p.pos]
    ELSE [raised |-> FALSE, call |-> TRUE, result |-> p.result, pos |-> p.pos]

decode_length_delimited(p) ==
    IF p.raised THEN p ELSE Classify(p, Utf8Decode(p.result))

\* the dispatch of decode_field on the wire type, from the position after the
\* tag: the content and the position after the payload, an exception, or the
\* nested call
VarintPayload(v) ==
    IF v.raised THEN v ELSE Payload(v, decode_varint_parts(v.value), v.pos)

Fixed64Payload(v, pos) ==
    IF v.raised THEN v ELSE Payload(v, decode_fixed64(v.value), BigAdd(pos, Big(8)))

Fixed32Payload(v, pos) ==
    IF v.raised THEN v ELSE Payload(v, decode_fixed32(v.value), BigAdd(pos, Big(4)))

\* UnsupportedWireType turned into a field with no content that is skipped
SkippedWireType(pos, wire_type) ==
    [raised |-> FALSE, call |-> FALSE, content |-> << >>, pos |-> pos]

\* raise ValueError(f"Unsupported wire type: {wire_type}")
UnsupportedWireType(pos, wire_type) == Raise("ValueError")

FieldPayload(buffer, pos, wire_type) ==
    IF wire_type = WIRE_TYPE_VARINT
    THEN VarintPayload(_decode_varint(buffer, pos))
    ELSE IF wire_type = WIRE_TYPE_64BIT
    THEN Fixed64Payload(UnpackFromLE(buffer, pos, 8), pos)
    ELSE IF wire_type = WIRE_TYPE_LENGTH_DELIMITED
    THEN decode_length_delimited(LengthDelimitedPayload(buffer, pos))
    ELSE IF wire_type = WIRE_TYPE_32BIT
    THEN Fixed32Payload(UnpackFromLE(buffer, pos, 4), pos)
    ELSE UnsupportedWireType(pos, wire_type)

\* field_number = key >> 3 and wire_type = key & 0x07
FieldNumber(key) == BigShr(key, 3)
WireType(key) == Small(BigAnd(key, {0, 1, 2}))

\* decode_field after the payload read p, k being the tag read: the record
\* (or the state kept across the nested call)
FieldOf(buffer, k, p) ==
    IF p.raised THEN p
    ELSE IF p.call
    THEN [raised |-> FALSE, call |-> TRUE, result |-> p.result,
          pending |-> [active |-> TRUE, key_start |-> k.range[1],
                       field_number |-> FieldNumber(k.value),
                       wire_type |-> WireType(k.value),
                       original_value |-> Slice(buffer, k.range[1], k.pos),
                       pos |-> p.pos]]
    ELSE [raised |-> FALSE, call |-> FALSE, pos |-> p.pos,
          field_info |-> FieldInfo(k.range[1], p.pos, FieldNumber(k.value),
                                   WireType(k.value),
                                   Slice(buffer, k.range[1], k.pos), p.content)]

\* decode_field after the tag read k
FieldAfterKey(buffer, k) ==
    IF k.raised THEN k
    ELSE FieldOf(buffer, k, FieldPayload(buffer, k.pos, WireType(k.value)))

\* decode_field(buffer, pos), up to its return or to the nested call
decode_field(buffer, pos) == FieldAfterKey(buffer, _decode_varint(buffer, pos))

\* the rest of decode_field once the nested call has decided the content
ResumeField(pending, content) ==
    FieldInfo(pending.key_start, pending.pos, pending.field_number,
              pending.wire_type, pending.original_value, content)

----------------------------------------------------------------------------
(* decode_protobuf as a machine: one activation per (nested) call *)

NoPending == [active |-> FALSE]

\* a fresh activation of decode_protobuf(buffer): pos = 0, decoded_message = []
Activation(buffer) ==
    [buffer |-> buffer, pos |-> {}, decoded_message |-> << >>,
     pending |-> NoPending]

Top == stack[Len(stack)]

\* the loop condition "pos < len(buffer)" of an activation
LoopContinues(f) == BigLess(f.pos, Big(Len(f.buffer)))

\* the caller's activation once its field is complete
Resumed(f, content) ==
    [f EXCEPT !.pos = f.pending.pos,
              !.decoded_message = Append(@, ResumeField(f.pending, content)),
              !.pending = NoPending]

\* the stack once the innermost activation has ended and its caller's
\* decode_length_delimited has returned content
Returned(s, content) ==
    [SubSeq(s, 1, Len(s) - 1) EXCEPT ![Len(s) - 1] = Resumed(s[Len(s) - 1], content)]

BuffersUpTo(n) == UNION {[1..k -> ByteAlphabet] : k \in 0..n}

\* a fixed64 field of field number 0 with 0 to 9 payload bytes
Fixed64Buffers ==
    {<<WIRE_TYPE_64BIT>> \o [i \in 1..n |-> b] : n \in 0..9, b \in ByteAlphabet}

\* a tag of wire type 3, 4, 6 or 7 (field numbers 0 and 3), alone or after a
\* complete field, and followed by at most one byte
UnsupportedTagBuffers ==
    {pre \o <<t>> \o suf : pre \in {<< >>, <<0, 0>>, <<2, 0>>},
                           t \in {3, 4, 6, 7, 27, 28, 30, 31},
                           suf \in BuffersUpTo(1)}

InputBuffers == BuffersUpTo(MaxLen) \cup Fixed64Buffers \cup UnsupportedTagBuffers

NoReader == [buffer |-> << >>, offset |-> 0, saved_offset |-> 0]
NoCall == [op |-> "", raised |-> FALSE, exc |-> "", ret |-> << >>]

\* the module is loaded and nothing has been called yet
Init ==
    /\ stack = << >>
    /\ outcome = "idle"
    /\ retval = << >>
    /\ error = ""
    /\ reader = NoReader
    /\ last = NoCall
    /\ value = {}
    /\ parts = << >>

\* decoded_message = decode_protobuf(binary_data)
Call ==
    /\ outcome = "idle"
    /\ \E b \in InputBuffers : stack' = <<Activation(b)>>
    /\ outcome' = "running"
    /\ UNCHANGED <<retval, error, reader, last, value, parts>>

\* one iteration of the loop whose decode_field returns without a nested call
DecodeField ==
    /\ outcome = "running"
    /\ LoopContinues(Top)
    /\ \E r \in {decode_field(Top.buffer, Top.pos)} :
          /\ ~r.raised
          /\ ~r.call
          /\ stack' = [stack EXCEPT ![Len(stack)] =
                 [@ EXCEPT !.pos = r.pos,
                           !.decoded_message = Append(@, r.field_info)]]
    /\ UNCHANGED <<outcome, retval, error, reader, last, value, parts>>

\* decode_field reaches decode_protobuf(result) in decode_length_delimited
NestedCall ==
    /\ outcome = "running"
    /\ LoopContinues(Top)
    /\ \E r \in {decode_field(Top.buffer, Top.pos)} :
          /\ ~r.raised
          /\ r.call
          /\ stack' = Append([stack EXCEPT ![Len(stack)].pending = r.pending],
                             Activation(r.result))
    /\ UNCHANGED <<outcome, retval, error, reader, last, value, parts>>

\* the nested decode_protobuf returns: the caller's field is "protobuf"
NestedReturn ==
    /\ outcome = "running"
    /\ Len(stack) > 1
    /\ ~LoopContinues(Top)
    /\ stack' = Returned(stack, ProtobufContent(Top.buffer, Top.decoded_message))
    /\ UNCHANGED <<outcome, retval, error, reader, last, value, parts>>

\* the nested decode_protobuf raises and the caller's handler catches it: the
\* caller's field is "bytes"
NestedRaise ==
    /\ outcome = "running"
    /\ Len(stack) > 1
    /\ LoopContinues(Top)
    /\ \E r \in {decode_field(Top.buffer, Top.pos)} :
          /\ r.raised
          /\ ExceptException(r.exc)
    /\ stack' = Returned(stack, BytesContent(Top.buffer))
    /\ UNCHANGED <<outcome, retval, error, reader, last, value, parts>>

\* decode_field raises and no handler catches it: the top-level call raises
Raises ==
    /\ outcome = "running"
    /\ LoopContinues(Top)
    /\ \E r \in {decode_field(Top.buffer, Top.pos)} :
          /\ r.raised
          /\ (Len(stack) = 1 \/ ~ExceptException(r.exc))
          /\ error' = r.exc
    /\ outcome' = "raised"
    /\ UNCHANGED <<stack, retval, reader, last, value, parts>>

\* the loop of the top-level call ends: return decoded_message
Return ==
    /\ outcome = "running"
    /\ Len(stack) = 1
    /\ ~LoopContinues(Top)
    /\ outcome' = "returned"
    /\ retval' = Top.decoded_message
    /\ UNCHANGED <<stack, error, reader, last, value, parts>>

Next ==
    \/ Call
    \/ DecodeField
    \/ NestedCall
    \/ NestedReturn
    \/ NestedRaise
    \/ Raises
    \/ Return

Spec == Init /\ [][Next]_vars

----------------------------------------------------------------------------
(* class BufferReader *)

\* BufferReader(buffer)
BufferReader(buffer) == [buffer |-> buffer, offset |-> 0, saved_offset |-> 0]

left_bytes(self) == Len(self.buffer) - self.offset

Returns(op, ret) == [op |-> op, raised |-> FALSE, exc |-> "", ret |-> ret]
RaisesIn(op, exc) == [op |-> op, raised |-> TRUE, exc |-> exc, ret |-> << >>]

\* try_skip_grpc_header once the flag byte has been read: the new offset
SkipGrpcHeader(self) ==
    IF self.buffer[self.offset + 1] = 0 /\ left_bytes(self) >= 5
    THEN IF BigLess(Big(left_bytes([self EXCEPT !.offset = @ + 5])),
                    UnpackBE(SubSeq(self.buffer, self.offset + 2, self.offset + 5)))
         THEN self.offset
         ELSE self.offset + 5
    ELSE self.offset

ReaderBuffers == UNION {[1..k -> ReaderAlphabet] : k \in 0..ReaderMaxLen}

\* BufferReader(buffer)
NewReader ==
    /\ last = NoCall
    /\ \E b \in ReaderBuffers : reader' = BufferReader(b)
    /\ last' = Returns("__init__", << >>)
    /\ UNCHANGED <<stack, outcome, retval, error, value, parts>>

\* read_varint: _decode_varint raises IndexError, or returns three values
\* where the assignment unpacks two (ValueError); offset is never assigned
read_varint ==
    /\ last # NoCall
    /\ \E v \in {_decode_varint(reader.buffer, Big(reader.offset))} :
          last' = RaisesIn("read_varint",
                           IF v.raised THEN v.exc ELSE "ValueError")
    /\ UNCHANGED <<reader, stack, outcome, retval, error, value, parts>>

read_buffer ==
    \E length \in 0..(ReaderMaxLen + 1) :
        /\ last # NoCall
        /\ IF length > left_bytes(reader)
           THEN /\ last' = RaisesIn("read_buffer", "ValueError")
                /\ UNCHANGED reader
           ELSE /\ last' = Returns("read_buffer",
                        SubSeq(reader.buffer, reader.offset + 1,
                               reader.offset + length))
                /\ reader' = [reader EXCEPT !.offset = @ + length]
        /\ UNCHANGED <<stack, outcome, retval, error, value, parts>>

try_skip_grpc_header ==
    /\ last # NoCall
    /\ IF reader.offset >= Len(reader.buffer)
       THEN /\ last' = RaisesIn("try_skip_grpc_header", "IndexError")
            /\ UNCHANGED reader
       ELSE /\ last' = Returns("try_skip_grpc_header", << >>)
            /\ reader' = [reader EXCEPT !.offset = SkipGrpcHeader(reader)]
    /\ UNCHANGED <<stack, outcome, retval, error, value, parts>>

checkpoint ==
    /\ last # NoCall
    /\ reader' = [reader EXCEPT !.saved_offset = reader.offset]
    /\ last' = Returns("checkpoint", << >>)
    /\ UNCHANGED <<stack, outcome, retval, error, value, parts>>

reset_to_checkpoint ==
    /\ last # NoCall
    /\ reader' = [reader EXCEPT !.offset = reader.saved_offset]
    /\ last' = Returns("reset_to_checkpoint", << >>)
    /\ UNCHANGED <<stack, outcome, retval, error, value, parts>>

NextReader ==
    \/ NewReader
    \/ read_varint
    \/ read_buffer
    \/ try_skip_grpc_header
    \/ checkpoint
    \/ reset_to_checkpoint

SpecReader == Init /\ [][NextReader]_vars

----------------------------------------------------------------------------
(* decode_varint_parts on its own *)

\* parts = decode_varint_parts(value)
CallDecodeVarintParts ==
    /\ \E v \in SUBSET VarintBitPositions :
          /\ value' = v
          /\ parts' = decode_varint_parts(v)
    /\ UNCHANGED <<stack, outcome, retval, error, reader, last>>

NextVarint == CallDecodeVarintParts

SpecVarint == Init /\ [][NextVarint]_vars

----------------------------------------------------------------------------
(* Vocabulary of the properties *)

\* the activation of the top-level call
Outer == stack[1]

\* a step completes a field of the activation that is innermost after it:
\* decode_field returned there, directly or after a nested call
FieldProduced ==
    /\ outcome = "running"
    /\ Len(stack') <= Len(stack)
    /\ Len(stack'[Len(stack')].decoded_message)
         = Len(stack[Len(stack')].decoded_message) + 1

\* the activation that field belongs to, before and after the step, and the
\* record appended
Before == stack[Len(stack')]
After == stack'[Len(stack')]
NewRecord == After.decoded_message[Len(After.decoded_message)]

\* f"{start}-{end}"
Range(start, end) == IntToStr(start) \o "-" \o IntToStr(end)

\* the varint at index pos (from 0) ends inside the buffer
VarintEndsInBounds(buffer, pos) ==
    \E i \in (pos + 1)..Len(buffer) : buffer[i] < 128

\* the index after the varint at pos
RECURSIVE VarintEnd(_, _)
VarintEnd(buffer, pos) ==
    IF buffer[pos + 1] < 128 THEN pos + 1 ELSE VarintEnd(buffer, pos + 1)

\* the field starting at index pos of the buffer is truncated: the buffer ends
\* inside the tag varint, or the field is length-delimited and the buffer ends
\* inside the length varint or before the declared number of payload bytes
TruncatedField(buffer, pos) ==
    \/ ~VarintEndsInBounds(buffer, pos)
    \/ /\ buffer[pos + 1] % 8 = WIRE_TYPE_LENGTH_DELIMITED
       /\ \/ ~VarintEndsInBounds(buffer, VarintEnd(buffer, pos))
          \/ BigLess(Big(Len(buffer) - VarintEnd(buffer, VarintEnd(buffer, pos))),
                     _decode_varint(buffer, Big(VarintEnd(buffer, pos))).value)

OutOfBoundsErrors == {"IndexError", "struct.error"}

----------------------------------------------------------------------------
(* C1 *)

\* C1: decode_protobuf fails with an out-of-bounds error, and returns no
\* list, whenever the field it is about to decode at the top level is
\* truncated: the buffer ends inside the tag varint, inside the length varint
\* of a length-delimited field, or before the declared payload length.
C1_TruncatedBufferFails ==
    [][(/\ outcome = "running"
        /\ Len(stack) = 1
        /\ LoopContinues(Outer)
        /\ TruncatedField(Outer.buffer, Small(Outer.pos)))
       => (/\ outcome' = "raised"
           /\ error' \in OutOfBoundsErrors
           /\ retval' = << >>)]_vars

----------------------------------------------------------------------------
(* C2 *)

\* C2: in a run of decode_protobuf on a buffer of length N, pos stays within
\* 0..N after every decode_field step, and when a list is returned pos = N.
C2_PosWithinBuffer ==
    outcome # "idle" =>
        /\ ~BigLess(Big(Len(Outer.buffer)), Outer.pos)
        /\ outcome = "returned" => Outer.pos = Big(Len(Outer.buffer))

----------------------------------------------------------------------------
(* C3 *)

\* C3: every record decode_field produces, whose "Byte Range" is "start-end",
\* has as "Original Hex" the hex rendering of buffer[start:end]: the tag bytes
\* followed by all the payload bytes.
C3_OriginalHexIsTheByteRange ==
    [][FieldProduced =>
        (NewRecord["Byte Range"] = Range(Before.pos, After.pos)
           => NewRecord["Original Hex"]
                = buffer_to_pretty_hex(Slice(Before.buffer, Before.pos, After.pos)))]_vars

----------------------------------------------------------------------------
(* C4 *)

\* C4: a payload that is not valid UTF-8 is classified "protobuf" exactly when
\* its decoding as a message ends exactly at the end of the payload slice;
\* every other such payload is classified "bytes", with value = hex.
C4_ProtobufIffExactlyConsumed ==
    [][(outcome = "running" /\ Len(stack') < Len(stack)) =>
        IF Top.pos = Big(Len(Top.buffer))
        THEN NewRecord["Content"].type = "protobuf"
        ELSE /\ NewRecord["Content"].type = "bytes"
             /\ NewRecord["Content"].value = NewRecord["Content"].hex]_vars

----------------------------------------------------------------------------
(* C6 *)

\* the field at the position of activation f is length-delimited and its
\* length varint is read in bounds
LengthReadInBounds(f) ==
    /\ LoopContinues(f)
    /\ VarintEndsInBounds(f.buffer, Small(f.pos))
    /\ f.buffer[Small(f.pos) + 1] % 8 = WIRE_TYPE_LENGTH_DELIMITED
    /\ VarintEndsInBounds(f.buffer, VarintEnd(f.buffer, Small(f.pos)))

\* C6: no failure escapes the payload classifier.  While a nested decode is
\* under way, no step makes the top-level call fail, at any depth; a nested
\* decode that ends leaves its caller with a "protobuf" or "bytes" field; and
\* a length-delimited field whose length varint is read in bounds never
\* raises: it is classified, or its payload is being decoded.
C6_ClassifierContainsFailures ==
    [][/\ (outcome = "running" /\ Len(stack) > 1) =>
            /\ outcome' = "running"
            /\ Len(stack') < Len(stack) =>
                  /\ FieldProduced
                  /\ NewRecord["Content"].type \in {"protobuf", "bytes"}
       /\ (outcome = "running" /\ LengthReadInBounds(Top)) =>
            /\ outcome' = "running"
            /\ Len(stack') = Len(stack) =>
                  /\ FieldProduced
                  /\ NewRecord["Content"].type = "string"]_vars

\* a returned message holds a "protobuf" field one of whose own fields is
\* "bytes": a nested decode failed two levels down and was contained
C6_Witness ==
    /\ outcome = "returned"
    /\ \E i \in 1..Len(retval) :
          /\ retval[i]["Type"] = "length_delimited"
          /\ retval[i]["Content"].type = "protobuf"
          /\ \E j \in 1..Len(retval[i]["Content"].value) :
                LET inner == retval[i]["Content"].value[j]
                IN /\ inner["Type"] = "length_delimited"
                   /\ inner["Content"].type = "bytes"

----------------------------------------------------------------------------
(* C7 *)

\* C7: when the top-level loop reads a tag whose low 3 bits are 3, 4, 6 or 7,
\* the whole decode fails with the unsupported-wire-type error and returns no
\* list, whatever was decoded before.
C7_UnsupportedWireTypeFails ==
    [][(/\ outcome = "running"
        /\ Len(stack) = 1
        /\ LoopContinues(Outer)
        /\ VarintEndsInBounds(Outer.buffer, Small(Outer.pos))
        /\ Outer.buffer[Small(Outer.pos) + 1] % 8 \in {3, 4, 6, 7})
       => (/\ outcome' = "raised"
           /\ error' = "ValueError"
           /\ retval' = << >>)]_vars

\* the decode failed on an unsupported wire type after a field was decoded
C7_Witness ==
    /\ outcome = "raised"
    /\ error = "ValueError"
    /\ Len(stack) = 1
    /\ Len(Outer.decoded_message) >= 1

----------------------------------------------------------------------------
(* C8 *)

\* the index, in the buffer of activation f, where the payload of the field
\* it is decoding starts (after the tag and the length varints)
PayloadStart(f) == VarintEnd(f.buffer, VarintEnd(f.buffer, Small(f.pos)))

\* the offset in the top-level buffer of the buffer of the i-th activation
RECURSIVE Base(_)
Base(i) == IF i = 1 THEN 0 ELSE Base(i - 1) + PayloadStart(stack[i - 1])

\* C8: every record, at every nesting depth, carries as "Byte Range" the
\* offsets of its field in the top-level buffer.
C8_ByteRangeInTopLevelBuffer ==
    [][FieldProduced =>
        NewRecord["Byte Range"]
          = Range(BigAdd(Big(Base(Len(stack'))), Before.pos),
                  BigAdd(Big(Base(Len(stack'))), After.pos))]_vars

----------------------------------------------------------------------------
(* C5 *)

\* what try_skip_grpc_header looks for at the reader's offset: a byte 0, at
\* least 5 bytes left, and a big-endian 4-byte length of at most the bytes left
\* after the 5-byte header
GrpcHeaderAt(self) ==
    /\ self.offset < Len(self.buffer)
    /\ self.buffer[self.offset + 1] = 0
    /\ Len(self.buffer) - self.offset >= 5
    /\ \A i \in 2..4 : self.buffer[self.offset + i] = 0
    /\ self.buffer[self.offset + 5] <= Len(self.buffer) - self.offset - 5

\* C5: try_skip_grpc_header never fails, for any buffer and any offset up to
\* the end of the buffer, and it leaves the offset 5 further when a gRPC
\* header is found there, and unchanged otherwise.
C5_TrySkipNeverFails ==
    [][last'.op = "try_skip_grpc_header" =>
        /\ ~last'.raised
        /\ reader'.offset = IF GrpcHeaderAt(reader)
                            THEN reader.offset + 5
                            ELSE reader.offset]_vars

----------------------------------------------------------------------------
(* C9 *)

\* c is the w-bit two's-complement reading of the low w bits of v: it is
\* congruent to v modulo 2^w and lies in -2^(w-1) .. 2^(w-1) - 1
IsTwosComplement(c, v, w) ==
    LET low == {i \in v : i < w}
    IN IF (w - 1) \in low
       THEN c.neg /\ BigAdd(c.mag, low) = {w}
       ELSE ~c.neg /\ c.mag = low

\* c is the zig-zag decoding of v: v / 2 for an even v, -(v + 1) / 2 for an
\* odd one
IsZigZag(c, v) ==
    IF 0 \in v
    THEN c.neg /\ BigAdd(c.mag, c.mag) = BigAdd(v, {0})
    ELSE ~c.neg /\ BigAdd(c.mag, c.mag) = v

\* the candidate of a kind in the list, if any
Candidates(kind) == {i \in 1..Len(parts) : parts[i].type = kind}

\* a candidate other than "uint" is listed at most once, holds the reading
\* Reads of the value, and is listed exactly when that reading differs from it
ListedIffDiffers(kind, Reads(_, _)) ==
    /\ Cardinality(Candidates(kind)) <= 1
    /\ \A i \in Candidates(kind) :
          /\ Reads(parts[i].value, value)
          /\ parts[i].value # [neg |-> FALSE, mag |-> value]
    /\ Candidates(kind) = {} => Reads([neg |-> FALSE, mag |-> value], value)

IsInt32(c, v) == IsTwosComplement(c, v, 32)
IsInt64(c, v) == IsTwosComplement(c, v, 64)

KindOrder == <<"uint", "int32", "int64", "sint">>
KindIndex(kind) == CHOOSE k \in 1..Len(KindOrder) : KindOrder[k] = kind

\* C9: for every varint value V the list of decode_varint_parts starts with
\* the "uint" candidate of value V; the "int32", "int64" and "sint"
\* candidates appear exactly when their value differs from V, with the values
\* of the two's-complement and zig-zag readings; and the candidates appear in
\* the order uint, int32, int64, sint.
C9_VarintCandidates ==
    parts # << >> =>
        /\ parts[1] = [type |-> "uint", value |-> [neg |-> FALSE, mag |-> value]]
        /\ Candidates("uint") = {1}
        /\ \A i \in 1..Len(parts) : parts[i].type \in {"uint", "int32", "int64", "sint"}
        /\ ListedIffDiffers("int32", IsInt32)
        /\ ListedIffDiffers("int64", IsInt64)
        /\ ListedIffDiffers("sint", IsZigZag)
        /\ \A i, j \in 1..Len(parts) :
              i < j => KindIndex(parts[i].type) < KindIndex(parts[j].type)

\* a value at least 2^63 got all four candidates, the signed ones negative
C9_Witness ==
    /\ Len(parts) = 4
    /\ 63 \in value
    /\ parts[2].value.neg
    /\ parts[3].value.neg

----------------------------------------------------------------------------
(* C10 *)

\* every nested activation runs on a buffer strictly shorter than its caller's
NestedSliceShorter ==
    \A i \in 2..Len(stack) : Len(stack[i].buffer) < Len(stack[i - 1].buffer)

\* the loop of an activation and the depth of the recursion stay within the
\* length of the buffer
BoundedByLength ==
    /\ outcome # "idle" => Len(stack) <= Len(Outer.buffer) + 1
    /\ \A i \in 1..Len(stack) :
          Len(stack[i].decoded_message) <= Len(stack[i].buffer)

\* the bytes an activation has left to read: len(buffer) - pos, or 0 once pos
\* has reached or passed the end
Remaining(buffer, pos) ==
    IF BigLess(pos, Big(Len(buffer))) THEN Len(buffer) - Small(pos) ELSE 0

\* the steps an activation can still take: two per byte left and its return;
\* an activation waiting for a nested call resumes at pending.pos and has the
\* completion of the pending field to take as well
Weight(f) ==
    IF f.pending.active
    THEN 2 * Remaining(f.buffer, f.pending.pos) + 2
    ELSE 2 * Remaining(f.buffer, f.pos) + 1

RECURSIVE WeightSum(_)
WeightSum(s) == IF s = << >> THEN 0 ELSE Weight(Head(s)) + WeightSum(Tail(s))

\* a natural number that is 0 exactly when the call has returned or raised
Rank == IF outcome = "running" THEN 1 + WeightSum(stack) ELSE 0

RankBounded == outcome = "running" => Rank <= 2 * Len(Outer.buffer) + 2

\* C10: decode_protobuf terminates on every buffer: every decode_field call
\* that returns has advanced pos by at least 1, every nested call runs on a
\* strictly shorter buffer, so the loop and the recursion depth are bounded by
\* the length of the buffer, and every step of a running call strictly lowers
\* a natural-number rank that starts at no more than 2 * len(buffer) + 2 and
\* is 0 when the call has returned a list or raised: no run has more steps.
C10_Terminates ==
    /\ [](NestedSliceShorter /\ BoundedByLength /\ RankBounded)
    /\ [][FieldProduced => BigLess(Before.pos, After.pos)]_vars
    /\ [][outcome = "running" => Rank' < Rank]_vars

\* the call has returned a list after a nested decode inside a nested decode:
\* a "protobuf" field holding a field whose own nested decode raised ("bytes")
C10_Witness ==
    /\ outcome = "returned"
    /\ \E i \in 1..Len(retval) :
          /\ retval[i]["Type"] = "length_delimited"
          /\ retval[i]["Content"].type = "protobuf"
          /\ \E j \in 1..Len(retval[i]["Content"].value) :
                /\ retval[i]["Content"].value[j]["Type"] = "length_delimited"
                /\ retval[i]["Content"].value[j]["Content"].type = "bytes"

====
